---- MODULE Spec2Model ----
(***************************************************************************)
(* Model of cluster_linearize::DepGraph<S> (src/src/cluster_linearize.h):  *)
(* the per-cluster transaction dependency graph that stores, for every     *)
(* transaction, its feerate, its ancestor set and its descendant set.      *)
(*                                                                         *)
(* A set S of ClusterIndex values is a TLA+ set of naturals; its iteration *)
(* order is ascending index order.  A FeeFrac is a pair <<fee, size>>.     *)
(* entries is a function from 0..TxCount-1 to Entry records, so indices    *)
(* are the zero-based ClusterIndex values of the source.                   *)
(***************************************************************************)
EXTENDS Integers, FiniteSets, Sequences, TLC

\* Largest number of transactions and of direct-parent links of the clusters
\* on which the queries are examined.
MaxQueryTx == 4

MaxEdges == 5

\* Largest number of transactions a graph (or a cluster) gets in the model.
MaxTx == 3

VARIABLES entries, prev, last, cluster

vars == <<entries, prev, last, cluster>>

----------------------------------------------------------------------------
\* FeeFrac and the index set S

\* FeeFrac() : the default-constructed (zero) feerate.
ZeroFeeFrac == <<0, 0>>

\* FeeFrac::operator+= : component-wise sum of fee and size.
FeeFracAdd(a, b) == <<a[1] + b[1], a[2] + b[2]>>

\* The feerates callers pass to AddTransaction and put in clusters.
FeeFracs == {<<1, 1>>, <<2, 1>>}

\* First element of a non-empty index set in iteration order.
First(s) == CHOOSE x \in s : \A y \in s : x <= y

----------------------------------------------------------------------------
\* DepGraph: accessors

EmptyGraph == [i \in {} |-> [feerate |-> ZeroFeeFrac, ancestors |-> {}, descendants |-> {}]]

TxCountOf(e) == Cardinality(DOMAIN e)

TxCount == TxCountOf(entries)

Ancestors(i) == entries[i].ancestors

Descendants(i) == entries[i].descendants

----------------------------------------------------------------------------
\* DepGraph: constructors

\* DepGraph(ntx) that leaves the descendants as resize() made them.
DepGraphNtxNoDescendants(ntx) ==
    [i \in 0..(ntx - 1) |->
        [feerate |-> ZeroFeeFrac, ancestors |-> {i}, descendants |-> {}]]

\* explicit DepGraph(ClusterIndex ntx)
DepGraphNtx(ntx) ==
    [i \in 0..(ntx - 1) |->
        [feerate |-> ZeroFeeFrac, ancestors |-> {i}, descendants |-> {i}]]

\* First loop of DepGraph(const Cluster<S>&): fee, size, parent information.
FillParents(cl) ==
    [i \in DOMAIN cl |->
        [feerate |-> cl[i].first,
         ancestors |-> cl[i].second \cup {i},
         descendants |-> {}]]

\* PropagateStep whose inner loop starts at j = i + 1, as if every
\* transaction that has i as an ancestor came after i.
PropagateStepForward(e, i) ==
    LET to_merge == e[i].ancestors
    IN  [j \in DOMAIN e |->
            IF j > i /\ i \in e[j].ancestors
            THEN [e[j] EXCEPT !.ancestors = @ \cup to_merge]
            ELSE e[j]]

\* Body of the outer propagation loop for one i: every j whose ancestor set
\* holds i gets to_merge, the copy of entries[i].ancestors taken before the
\* inner loop.
PropagateStep(e, i) ==
    LET to_merge == e[i].ancestors
    IN  [j \in DOMAIN e |->
            IF i \in e[j].ancestors
            THEN [e[j] EXCEPT !.ancestors = @ \cup to_merge]
            ELSE e[j]]

\* The outer propagation loop, i = from .. entries.size()-1.
RECURSIVE Propagate(_, _)
Propagate(e, i) ==
    IF i >= TxCountOf(e) THEN e ELSE Propagate(PropagateStep(e, i), i + 1)

\* FillDescendants with the two indices exchanged: entries[i].descendants.Set(j).
FillDescendantsSwapped(e) ==
    [i \in DOMAIN e |-> [e[i] EXCEPT !.descendants = @ \cup e[i].ancestors]]

\* Third loop: entries[j].descendants.Set(i) for every j in entries[i].ancestors.
FillDescendants(e) ==
    [j \in DOMAIN e |->
        [e[j] EXCEPT !.descendants = @ \cup {i \in DOMAIN e : j \in e[i].ancestors}]]

\* DepGraph(cluster) without the propagation loop.
DepGraphClusterNoSweep(cl) == FillDescendants(FillParents(cl))

\* explicit DepGraph(const Cluster<S>& cluster)
DepGraphCluster(cl) == FillDescendants(Propagate(FillParents(cl), 0))

----------------------------------------------------------------------------
\* DepGraph: mutation

\* ClusterIndex AddTransaction(const FeeFrac& feefrac): the returned new_idx.
AddTransactionIndex(e) == TxCountOf(e)

\* AddTransaction that takes the singleton's index from TxCount() after the
\* entry was appended.
AddTransactionStale(e, feefrac) ==
    LET new_idx == TxCountOf(e)
    IN  [i \in 0..new_idx |->
            IF i < new_idx THEN e[i]
            ELSE [feerate |-> feefrac, ancestors |-> {new_idx + 1},
                  descendants |-> {new_idx + 1}]]

\* AddTransaction that appends a default-constructed feerate.
AddTransactionDefaultFee(e, feefrac) ==
    LET new_idx == TxCountOf(e)
    IN  [i \in 0..new_idx |->
            IF i < new_idx THEN e[i]
            ELSE [feerate |-> ZeroFeeFrac, ancestors |-> {new_idx},
                  descendants |-> {new_idx}]]

\* ClusterIndex AddTransaction(const FeeFrac& feefrac): the new entries.
AddTransaction(e, feefrac) ==
    LET new_idx == TxCountOf(e)
    IN  [i \in 0..new_idx |->
            IF i < new_idx THEN e[i]
            ELSE [feerate |-> feefrac, ancestors |-> {new_idx}, descendants |-> {new_idx}]]

\* AddDescendants that adds the child alone, Set(child), instead of chl_des.
RECURSIVE AddDescendantsChildOnly(_, _, _)
AddDescendantsChildOnly(e, todo, child) ==
    IF todo = {} THEN e
    ELSE LET anc_of_par == First(todo)
         IN  AddDescendantsChildOnly([e EXCEPT ![anc_of_par].descendants = @ \cup {child}],
                                     todo \ {anc_of_par}, child)

\* First loop of AddDependency over the remaining members todo of
\* Ancestors(parent); chl_des is a reference, read from the current entries.
RECURSIVE AddDescendants(_, _, _)
AddDescendants(e, todo, child) ==
    IF todo = {} THEN e
    ELSE LET anc_of_par == First(todo)
             chl_des == e[child].descendants
         IN  AddDescendants([e EXCEPT ![anc_of_par].descendants = @ \cup chl_des],
                            todo \ {anc_of_par}, child)

\* AddAncestors with = in place of |=.
RECURSIVE AddAncestorsAssign(_, _, _)
AddAncestorsAssign(e, todo, parent) ==
    IF todo = {} THEN e
    ELSE LET dec_of_chl == First(todo)
             par_anc == e[parent].ancestors
         IN  AddAncestorsAssign([e EXCEPT ![dec_of_chl].ancestors = par_anc],
                                todo \ {dec_of_chl}, parent)

\* Second loop of AddDependency over the remaining members todo of
\* Descendants(child); par_anc is a reference, read from the current entries.
RECURSIVE AddAncestors(_, _, _)
AddAncestors(e, todo, parent) ==
    IF todo = {} THEN e
    ELSE LET dec_of_chl == First(todo)
             par_anc == e[parent].ancestors
         IN  AddAncestors([e EXCEPT ![dec_of_chl].ancestors = @ \cup par_anc],
                          todo \ {dec_of_chl}, parent)

\* AddDependency whose first loop runs over Ancestors(child).
AddDependencyWrongLoop(e, parent, child) ==
    LET e1 == AddDescendants(e, e[child].ancestors, child)
    IN  AddAncestors(e1, e1[child].descendants, parent)

\* AddDependency whose second loop merges chl_des where par_anc is meant.
AddDependencyWrongSet(e, parent, child) ==
    LET e1 == AddDescendants(e, e[parent].ancestors, child)
    IN  [d \in DOMAIN e1 |->
            IF d \in e1[child].descendants
            THEN [e1[d] EXCEPT !.ancestors = @ \cup e1[child].descendants]
            ELSE e1[d]]

\* AddDependency that updates the parent's and the child's own sets only.
AddDependencyDirect(e, parent, child) ==
    LET e1 == [e EXCEPT ![parent].descendants = @ \cup e[child].descendants]
    IN  [e1 EXCEPT ![child].ancestors = @ \cup e1[parent].ancestors]

\* AddDependency whose second loop writes to the descendants field.
AddDependencyWrongField(e, parent, child) ==
    LET e1 == AddDescendants(e, e[parent].ancestors, child)
    IN  [d \in DOMAIN e1 |->
            IF d \in e1[child].descendants
            THEN [e1[d] EXCEPT !.descendants = @ \cup e1[parent].ancestors]
            ELSE e1[d]]

\* AddDependency whose first loop runs over Descendants(parent).
AddDependencyOverDescendants(e, parent, child) ==
    LET e1 == AddDescendants(e, e[parent].descendants, child)
    IN  AddAncestors(e1, e1[child].descendants, parent)

\* AddDependency without its second loop.
AddDependencyNoAncestors(e, parent, child) ==
    AddDescendants(e, e[parent].ancestors, child)

\* AddDependency that detects a cycle inline and returns without a change.
AddDependencyRejectCycle(e, parent, child) ==
    IF child # parent /\ child \in e[parent].ancestors THEN e
    ELSE LET e1 == AddDescendants(e, e[parent].ancestors, child)
         IN  AddAncestors(e1, e1[child].descendants, parent)

\* void AddDependency(ClusterIndex parent, ClusterIndex child): the new entries.
AddDependency(e, parent, child) ==
    LET e1 == AddDescendants(e, e[parent].ancestors, child)
    IN  AddAncestors(e1, e1[child].descendants, parent)

----------------------------------------------------------------------------
\* DepGraph: queries

\* Reduce without ret.Set(a) after the subtraction.
RECURSIVE ReduceNoReinsert(_, _, _, _)
ReduceNoReinsert(e, ret, todo, field) ==
    IF todo = {} THEN ret
    ELSE LET a == First(todo)
             rel == IF field = "ancestors" THEN e[a].ancestors ELSE e[a].descendants
         IN  IF a \in ret
             THEN ReduceNoReinsert(e, ret \ rel, todo \ {a}, field)
             ELSE ReduceNoReinsert(e, ret, todo \ {a}, field)

\* Reduce without the test ret[a], over a copy of the initial ret.
RECURSIVE ReduceNoSkip(_, _, _, _)
ReduceNoSkip(e, ret, todo, field) ==
    IF todo = {} THEN ret
    ELSE LET a == First(todo)
             rel == IF field = "ancestors" THEN e[a].ancestors ELSE e[a].descendants
         IN  ReduceNoSkip(e, (ret \ rel) \cup {a}, todo \ {a}, field)

\* Loop of GetReducedParents / GetReducedChildren over the members todo of
\* ret that the iteration has not visited yet; rel(a) is Ancestors(a), resp.
\* Descendants(a).
RECURSIVE Reduce(_, _, _, _)
Reduce(e, ret, todo, field) ==
    IF todo = {} THEN ret
    ELSE LET a == First(todo)
             rel == IF field = "ancestors" THEN e[a].ancestors ELSE e[a].descendants
         IN  IF a \in ret
             THEN Reduce(e, (ret \ rel) \cup {a}, todo \ {a}, field)
             ELSE Reduce(e, ret, todo \ {a}, field)

\* GetReducedParents that subtracts Descendants(a) as GetReducedChildren does.
GetReducedParentsDescendants(e, i) ==
    LET ret == e[i].ancestors \ {i} IN Reduce(e, ret, ret, "descendants")

\* S GetReducedParents(ClusterIndex i)
GetReducedParents(e, i) ==
    LET ret == e[i].ancestors \ {i} IN Reduce(e, ret, ret, "ancestors")

\* GetReducedChildren that subtracts Ancestors(a) as GetReducedParents does.
GetReducedChildrenAncestors(e, i) ==
    LET ret == e[i].descendants \ {i} IN Reduce(e, ret, ret, "ancestors")

\* S GetReducedChildren(ClusterIndex i)
GetReducedChildren(e, i) ==
    LET ret == e[i].descendants \ {i} IN Reduce(e, ret, ret, "descendants")

\* GetReducedParents whose ret is a reference to entries[i].ancestors
\* instead of a copy of it.
GetReducedParentsEntriesInPlace(e, i) ==
    [e EXCEPT ![i].ancestors = GetReducedParents(e, i)]

\* The entries after GetReducedParents(i): S ret is a local copy of
\* Ancestors(i) and the const method writes to ret only.
GetReducedParentsEntries(e, i) == e

\* The entries after GetReducedChildren(i): S ret is a local copy of
\* Descendants(i) and the const method writes to ret only.
GetReducedChildrenEntries(e, i) == e

\* IsAcyclic that only tests that i is in the intersection.
IsAcyclicLoose(e) ==
    \A i \in DOMAIN e : i \in (e[i].ancestors \cap e[i].descendants)

\* FeeRateLoop with ret = in place of ret +=.
RECURSIVE FeeRateLoopAssign(_, _, _)
FeeRateLoopAssign(e, ret, todo) ==
    IF todo = {} THEN ret
    ELSE LET pos == First(todo)
         IN  FeeRateLoopAssign(e, e[pos].feerate, todo \ {pos})

\* Loop of FeeRate(const S& elems) over the remaining members todo of elems.
RECURSIVE FeeRateLoop(_, _, _)
FeeRateLoop(e, ret, todo) ==
    IF todo = {} THEN ret
    ELSE LET pos == First(todo)
         IN  FeeRateLoop(e, FeeFracAdd(ret, e[pos].feerate), todo \ {pos})

\* FeeFrac FeeRate(const S& elems)
FeeRate(e, elems) == FeeRateLoop(e, ZeroFeeFrac, elems)

\* bool IsAcyclic()
IsAcyclic(e) ==
    \A i \in DOMAIN e : (e[i].ancestors \cap e[i].descendants) = {i}

\* CanAddDependency that returns true right after the redundancy check.
CanAddDependencyRedundancyOnly(e, parent, child) ==
    IF child \in e[parent].descendants THEN FALSE ELSE TRUE

\* CanAddDependency that stops after the redundancy and the cycle check.
CanAddDependencyTwoChecks(e, parent, child) ==
    IF child \in e[parent].descendants THEN FALSE
    ELSE IF child \in e[parent].ancestors THEN FALSE
    ELSE TRUE

\* CanAddDependency without the redundancy check.
CanAddDependencyNoRedundancy(e, parent, child) ==
    IF child \in e[parent].ancestors THEN FALSE
    ELSE \A i \in e[parent].ancestors :
            ~ (/\ (e[i].descendants \cap e[child].descendants) # {}
               /\ (GetReducedChildren(e, i) \cap e[child].descendants) # {})

\* Guard of the scan of CanAddDependency (line 227): i and child have a
\* common descendant.
ScanGuard(e, i, child) == (e[i].descendants \cap e[child].descendants) # {}

\* ScanTest that asks for the reduced children of child instead of i.
ScanTestOfChild(e, i, child) ==
    (GetReducedChildren(e, child) \cap e[child].descendants) # {}

\* Inner test of the scan of CanAddDependency (line 228): a reduced child of
\* i is a descendant of child.
ScanTest(e, i, child) == (GetReducedChildren(e, i) \cap e[child].descendants) # {}

\* CanAddDependency whose first check reads Descendants(child)[parent].
CanAddDependencySwappedCheck(e, parent, child) ==
    IF parent \in e[child].descendants THEN FALSE
    ELSE IF child \in e[parent].ancestors THEN FALSE
    ELSE \A i \in e[parent].ancestors :
            ~ (/\ (e[i].descendants \cap e[child].descendants) # {}
               /\ (GetReducedChildren(e, i) \cap e[child].descendants) # {})

\* CanAddDependency whose guard intersects Ancestors(i) with
\* Descendants(child).
CanAddDependencyGuardAncestors(e, parent, child) ==
    IF child \in e[parent].descendants THEN FALSE
    ELSE IF child \in e[parent].ancestors THEN FALSE
    ELSE \A i \in e[parent].ancestors :
            ~ (/\ (e[i].ancestors \cap e[child].descendants) # {}
               /\ (GetReducedChildren(e, i) \cap e[child].descendants) # {})

\* CanAddDependency whose scan looks at the parent alone, not at every
\* ancestor of the parent.
CanAddDependencyParentOnly(e, parent, child) ==
    IF child \in e[parent].descendants THEN FALSE
    ELSE IF child \in e[parent].ancestors THEN FALSE
    ELSE ~ (/\ (e[parent].descendants \cap e[child].descendants) # {}
            /\ (GetReducedChildren(e, parent) \cap e[child].descendants) # {})

\* bool CanAddDependency(ClusterIndex parent, ClusterIndex child)
CanAddDependency(e, parent, child) ==
    IF child \in e[parent].descendants THEN FALSE
    ELSE IF child \in e[parent].ancestors THEN FALSE
    ELSE \A i \in e[parent].ancestors :
            ~ (/\ (e[i].descendants \cap e[child].descendants) # {}
               /\ (GetReducedChildren(e, i) \cap e[child].descendants) # {})

----------------------------------------------------------------------------
\* The callers' inputs

\* All clusters of n transactions whose direct-parent sets hold indices of
\* the cluster.
ClustersOf(n) ==
    [0..(n - 1) -> [first : FeeFracs, second : SUBSET (0..(n - 1))]]

NoCluster == [i \in {} |-> [first |-> ZeroFeeFrac, second |-> {}]]

\* The record of a call: its name, its arguments, the value it returned and,
\* inside the bulk constructor, the index i of its propagation loop; count is
\* the number of dependencies a caller has added so far.
NoCall ==
    [op |-> "DepGraph", parent |-> 0, child |-> 0, feefrac |-> ZeroFeeFrac,
     ntx |-> 0, elems |-> {}, i |-> 0, count |-> 0, ret |-> 0]

----------------------------------------------------------------------------
\* The state machine: one DepGraph object and the calls made on it.
\* prev is the value of entries before the last call and last is that call.

\* DepGraph() noexcept = default
Init ==
    /\ entries = EmptyGraph
    /\ prev = EmptyGraph
    /\ last = NoCall
    /\ cluster = NoCluster

\* g = DepGraph(ntx) on the freshly constructed object.
NewNtx ==
    /\ last.op = "DepGraph"
    /\ \E ntx \in 0..MaxTx :
          /\ entries' = DepGraphNtx(ntx)
          /\ last' = [NoCall EXCEPT !.op = "DepGraphNtx", !.ntx = ntx]
    /\ prev' = entries
    /\ UNCHANGED cluster

\* g = DepGraph(cluster) on the freshly constructed object.
NewCluster ==
    /\ last.op = "DepGraph"
    /\ \E n \in 0..MaxTx : \E cl \in ClustersOf(n) : entries' = DepGraphCluster(cl)
    /\ prev' = entries
    /\ last' = [NoCall EXCEPT !.op = "DepGraphCluster"]
    /\ UNCHANGED cluster

AddTransactionCall(feefrac) ==
    /\ TxCount < MaxTx
    /\ entries' = AddTransaction(entries, feefrac)
    /\ prev' = entries
    /\ last' = [NoCall EXCEPT !.op = "AddTransaction", !.feefrac = feefrac,
                              !.ret = AddTransactionIndex(entries)]
    /\ UNCHANGED cluster

AddDependencyCall(parent, child) ==
    /\ entries' = AddDependency(entries, parent, child)
    /\ prev' = entries
    /\ last' = [NoCall EXCEPT !.op = "AddDependency", !.parent = parent, !.child = child]
    /\ UNCHANGED cluster

Next ==
    \/ NewNtx
    \/ NewCluster
    \/ \E feefrac \in FeeFracs : AddTransactionCall(feefrac)
    \/ \E parent \in DOMAIN entries, child \in DOMAIN entries : AddDependencyCall(parent, child)

Spec == Init /\ [][Next]_vars

----------------------------------------------------------------------------
\* Bulk construction on its own: the caller's cluster is drawn first and the
\* constructor is then applied to it.

InitBulk ==
    /\ entries = EmptyGraph
    /\ prev = EmptyGraph
    /\ last = NoCall
    /\ \E n \in 0..MaxTx : cluster \in ClustersOf(n)

\* g = DepGraph(cluster) for the drawn cluster.
ConstructFromCluster ==
    /\ last.op = "DepGraph"
    /\ entries' = DepGraphCluster(cluster)
    /\ prev' = entries
    /\ last' = [NoCall EXCEPT !.op = "DepGraphCluster"]
    /\ UNCHANGED cluster

NextBulk == ConstructFromCluster

SpecBulk == InitBulk /\ [][NextBulk]_vars

----------------------------------------------------------------------------
\* Queries on a constructed graph: the caller's cluster is drawn from the
\* clusters with few direct-parent links, in any index order and with or
\* without cycles, and the constructor is applied to it.

\* The possible links <<parent, child>> among n transactions.
LinksOf(n) == {p \in (0..(n - 1)) \X (0..(n - 1)) : p[1] # p[2]}

\* The cluster of n transactions with the given links; transaction i has
\* fee i + 1 and size 100.
ClusterOfLinks(n, links) ==
    [i \in 0..(n - 1) |->
        [first |-> <<i + 1, 100>>,
         second |-> {p[1] : p \in {q \in links : q[2] = i}}]]

InitQuery ==
    /\ entries = EmptyGraph
    /\ prev = EmptyGraph
    /\ last = NoCall
    /\ \E n \in 0..MaxQueryTx :
          \E links \in {l \in SUBSET LinksOf(n) : Cardinality(l) <= MaxEdges} :
              cluster = ClusterOfLinks(n, links)

SpecQuery == InitQuery /\ [][NextBulk]_vars

----------------------------------------------------------------------------
\* Guarded mutation: a caller that starts from DepGraph() or DepGraph(ntx) and
\* adds a dependency only when CanAddDependency allows it.

CheckedAddDependencyCall(parent, child) ==
    /\ CanAddDependency(entries, parent, child)
    /\ AddDependencyCall(parent, child)

NextGuarded ==
    \/ NewNtx
    \/ \E feefrac \in FeeFracs : AddTransactionCall(feefrac)
    \/ \E parent \in DOMAIN entries, child \in DOMAIN entries :
            CheckedAddDependencyCall(parent, child)

SpecGuarded == Init /\ [][NextGuarded]_vars

----------------------------------------------------------------------------
\* Read-only use: a graph is constructed from a cluster of up to MaxTx
\* transactions, with any links, and the const member functions are then
\* called on it in any order.

InitRead ==
    /\ entries = EmptyGraph
    /\ prev = EmptyGraph
    /\ last = NoCall
    /\ \E n \in 0..MaxTx : \E links \in SUBSET LinksOf(n) :
          cluster = ClusterOfLinks(n, links)

\* A const member function op was called with the arguments in args and
\* returned ret; after is the value of entries it left.
Query(op, args, ret, after) ==
    /\ last.op # "DepGraph"
    /\ entries' = after
    /\ prev' = entries
    /\ last' = [args EXCEPT !.op = op, !.ret = ret]
    /\ UNCHANGED cluster

TxCountCall == Query("TxCount", NoCall, TxCountOf(entries), entries)

FeeRateCall(i) ==
    Query("FeeRate", [NoCall EXCEPT !.parent = i], entries[i].feerate, entries)

FeeRateSetCall(elems) ==
    Query("FeeRateSet", [NoCall EXCEPT !.elems = elems], FeeRate(entries, elems), entries)

AncestorsCall(i) ==
    Query("Ancestors", [NoCall EXCEPT !.parent = i], Ancestors(i), entries)

DescendantsCall(i) ==
    Query("Descendants", [NoCall EXCEPT !.parent = i], Descendants(i), entries)

GetReducedParentsCall(i) ==
    Query("GetReducedParents", [NoCall EXCEPT !.parent = i],
          GetReducedParents(entries, i), GetReducedParentsEntries(entries, i))

GetReducedChildrenCall(i) ==
    Query("GetReducedChildren", [NoCall EXCEPT !.parent = i],
          GetReducedChildren(entries, i), GetReducedChildrenEntries(entries, i))

IsAcyclicCall == Query("IsAcyclic", NoCall, IsAcyclic(entries), entries)

CanAddDependencyCall(parent, child) ==
    Query("CanAddDependency", [NoCall EXCEPT !.parent = parent, !.child = child],
          CanAddDependency(entries, parent, child), entries)

NextRead ==
    \/ ConstructFromCluster
    \/ TxCountCall
    \/ \E i \in DOMAIN entries : FeeRateCall(i)
    \/ \E elems \in SUBSET (DOMAIN entries) : FeeRateSetCall(elems)
    \/ \E i \in DOMAIN entries : AncestorsCall(i)
    \/ \E i \in DOMAIN entries : DescendantsCall(i)
    \/ \E i \in DOMAIN entries : GetReducedParentsCall(i)
    \/ \E i \in DOMAIN entries : GetReducedChildrenCall(i)
    \/ IsAcyclicCall
    \/ \E parent \in DOMAIN entries, child \in DOMAIN entries :
            CanAddDependencyCall(parent, child)

SpecRead == InitRead /\ [][NextRead]_vars

----------------------------------------------------------------------------
\* The bulk constructor loop by loop: the first loop, then one step for every
\* iteration of the outer propagation loop, then the third loop.

\* Lines 84-89.
FillParentsStep ==
    /\ last.op = "DepGraph"
    /\ entries' = FillParents(cluster)
    /\ prev' = entries
    /\ last' = [NoCall EXCEPT !.op = "Propagate", !.i = 0]
    /\ UNCHANGED cluster

\* Lines 97-102 for i = last.i, followed by ++i.
PropagateIteration ==
    /\ last.op = "Propagate"
    /\ last.i < TxCount
    /\ entries' = PropagateStep(entries, last.i)
    /\ prev' = entries
    /\ last' = [last EXCEPT !.i = @ + 1]
    /\ UNCHANGED cluster

\* Lines 106-110, once the propagation loop has ended.
FillDescendantsStep ==
    /\ last.op = "Propagate"
    /\ ~ (last.i < TxCount)
    /\ entries' = FillDescendants(entries)
    /\ prev' = entries
    /\ last' = [NoCall EXCEPT !.op = "DepGraphCluster"]
    /\ UNCHANGED cluster

NextSweep ==
    \/ FillParentsStep
    \/ PropagateIteration
    \/ FillDescendantsStep

SpecSweep == InitRead /\ [][NextSweep]_vars

----------------------------------------------------------------------------
\* Dependencies in any order: a caller that starts from DepGraph() or
\* DepGraph(ntx), appends transactions and adds any dependency, checked or
\* not.

NextDeps ==
    \/ NewNtx
    \/ AddTransactionCall(<<1, 1>>)
    \/ \E parent \in DOMAIN entries, child \in DOMAIN entries : AddDependencyCall(parent, child)

SpecDeps == Init /\ [][NextDeps]_vars

----------------------------------------------------------------------------
\* Filling a graph: a process holds a graph of a fixed number of
\* transactions, built from any cluster, and keeps adding dependencies that
\* CanAddDependency permits, as long as there is one.

\* No process makes more calls than this.
MaxAdditions == MaxTx * MaxTx

\* g = DepGraph(cluster) for a cluster of up to MaxTx transactions.
InitFill ==
    /\ \E n \in 0..MaxTx : \E links \in SUBSET LinksOf(n) :
          cluster = ClusterOfLinks(n, links)
    /\ entries = DepGraphCluster(cluster)
    /\ prev = EmptyGraph
    /\ last = NoCall

\* if (g.CanAddDependency(parent, child)) g.AddDependency(parent, child);
FillCall(parent, child) ==
    /\ last.count < MaxAdditions
    /\ CanAddDependency(entries, parent, child)
    /\ entries' = AddDependency(entries, parent, child)
    /\ prev' = entries
    /\ last' = [NoCall EXCEPT !.op = "AddDependency", !.parent = parent, !.child = child,
                              !.count = last.count + 1]
    /\ UNCHANGED cluster

NextFill ==
    \E parent \in DOMAIN entries, child \in DOMAIN entries : FillCall(parent, child)

\* The process goes on while a dependency is permitted.
SpecFill == InitFill /\ [][NextFill]_vars /\ WF_vars(NextFill)

----------------------------------------------------------------------------
\* Incremental construction of a given cluster: the caller draws a cluster in
\* topological order, calls AddTransaction(cluster[i].first) for i = 0, 1, ...
\* on an empty DepGraph and then AddDependency(p, i) once for every direct
\* parent p of every i, in any order.  last.elems holds the links for which
\* AddDependency has been called.

\* The links <<parent, child>> whose parent has the smaller index.
ForwardLinksOf(n) == {p \in LinksOf(n) : p[1] < p[2]}

InitIncremental ==
    /\ entries = EmptyGraph
    /\ prev = EmptyGraph
    /\ last = NoCall
    /\ \E n \in 0..MaxQueryTx : \E links \in SUBSET ForwardLinksOf(n) :
          cluster = ClusterOfLinks(n, links)

ReplayAddTransaction ==
    /\ TxCount < TxCountOf(cluster)
    /\ entries' = AddTransaction(entries, cluster[TxCount].first)
    /\ prev' = entries
    /\ last' = [NoCall EXCEPT !.op = "AddTransaction", !.feefrac = cluster[TxCount].first,
                              !.ret = AddTransactionIndex(entries)]
    /\ UNCHANGED cluster

ReplayAddDependency(parent, child) ==
    /\ TxCount = TxCountOf(cluster)
    /\ parent \in cluster[child].second
    /\ <<parent, child>> \notin last.elems
    /\ entries' = AddDependency(entries, parent, child)
    /\ prev' = entries
    /\ last' = [NoCall EXCEPT !.op = "AddDependency", !.parent = parent, !.child = child,
                              !.elems = last.elems \cup {<<parent, child>>}]
    /\ UNCHANGED cluster

NextIncremental ==
    \/ ReplayAddTransaction
    \/ \E parent \in DOMAIN entries, child \in DOMAIN entries :
            ReplayAddDependency(parent, child)

SpecIncremental == InitIncremental /\ [][NextIncremental]_vars

----------------------------------------------------------------------------
\* Properties

\* The last call was op.
After(op) == last.op = op

\* Three distinct transactions i, j, k with i an ancestor of j and j of k.
HasChain(e) ==
    \E i \in DOMAIN e, j \in DOMAIN e, k \in DOMAIN e :
        /\ i # j /\ j # k /\ i # k
        /\ i \in e[j].ancestors
        /\ j \in e[k].ancestors

\* C1 (I2, inverse relation): in every graph reached by a constructor and
\* any sequence of AddTransaction and AddDependency calls, j is in
\* Ancestors(i) exactly when i is in Descendants(j).
InverseRelation ==
    \A i \in DOMAIN entries, j \in DOMAIN entries :
        (j \in Ancestors(i)) <=> (i \in Descendants(j))

\* An AddDependency call has just closed a cycle between two transactions.
InverseRelationWitness ==
    /\ After("AddDependency")
    /\ last.parent # last.child
    /\ last.child \in Ancestors(last.parent)
    /\ last.parent \in Ancestors(last.child)
    /\ ~ (last.child \in prev[last.parent].descendants)

\* C2 (I3, transitivity): in every reachable graph both the ancestor and
\* the descendant relation are transitively closed.
Transitivity ==
    \A i \in DOMAIN entries, j \in DOMAIN entries, k \in DOMAIN entries :
        /\ (j \in Ancestors(i) /\ k \in Ancestors(j)) => k \in Ancestors(i)
        /\ (j \in Descendants(i) /\ k \in Descendants(j)) => k \in Descendants(i)

\* An AddDependency call has just joined two edges into a chain of three.
TransitivityWitness ==
    /\ After("AddDependency")
    /\ HasChain(entries)
    /\ ~ HasChain(prev)

\* C3 (I1, self-membership): in every reachable graph every transaction is
\* in its own ancestor set and in its own descendant set.
SelfMembership ==
    \A i \in DOMAIN entries : i \in Ancestors(i) /\ i \in Descendants(i)

\* AddTransaction has just appended an entry to a graph that has edges.
SelfMembershipWitness ==
    /\ After("AddTransaction")
    /\ TxCount = MaxTx
    /\ \E i \in DOMAIN prev : prev[i].ancestors # {i}

\* C4 (I4 under guarded mutation): starting from DepGraph() or DepGraph(ntx),
\* when every AddDependency(parent, child) is made only after
\* CanAddDependency(parent, child) returned true, IsAcyclic() is true in
\* every reachable state.
GuardedAcyclic == IsAcyclic(entries)

\* A permitted AddDependency call has just completed a chain of three.
GuardedAcyclicWitness ==
    /\ After("AddDependency")
    /\ CanAddDependency(prev, last.parent, last.child)
    /\ HasChain(entries)
    /\ ~ HasChain(prev)

\* The transactions reached from the set s by following direct-parent links
\* of the cluster cl any number of times.
RECURSIVE ReachedFrom(_, _)
ReachedFrom(cl, s) ==
    LET t == s \cup UNION {cl[x].second : x \in s}
    IN  IF t = s THEN s ELSE ReachedFrom(cl, t)

\* Reflexive-transitive closure of the direct-parent relation of cl at i.
ClosureAt(cl, i) == ReachedFrom(cl, {i})

\* Every direct parent of i has an index below i.
IsTopological(cl) == \A i \in DOMAIN cl : \A p \in cl[i].second : p < i

\* Some direct parent of some i has an index above i.
IsOutOfOrder(cl) == \E i \in DOMAIN cl : \E p \in cl[i].second : p > i

\* The direct-parent relation has a cycle through two or more transactions.
HasParentCycle(cl) ==
    \E i \in DOMAIN cl, j \in DOMAIN cl :
        i # j /\ j \in ClosureAt(cl, i) /\ i \in ClosureAt(cl, j)

\* entries holds the closure of the cluster's direct-parent relation.
HoldsClosure ==
    /\ DOMAIN entries = DOMAIN cluster
    /\ \A i \in DOMAIN cluster :
          /\ Ancestors(i) = ClosureAt(cluster, i)
          /\ Descendants(i) = {j \in DOMAIN cluster : i \in ClosureAt(cluster, j)}

\* C5 (bulk construction computes the closure): for a cluster given in
\* topological order, DepGraph(cluster) yields Ancestors(i) equal to the
\* reflexive-transitive closure of the direct parents, Descendants(i) equal
\* to its inverse, and FeeRate(i) equal to cluster[i].first.
BulkClosure ==
    (After("DepGraphCluster") /\ IsTopological(cluster)) =>
        /\ HoldsClosure
        /\ \A i \in DOMAIN cluster : entries[i].feerate = cluster[i].first

\* A chain 0 -> 1 -> 2 given by its direct parents only, with two feerates.
BulkClosureWitness ==
    /\ After("DepGraphCluster")
    /\ IsTopological(cluster)
    /\ TxCountOf(cluster) = 3
    /\ cluster[1].second = {0}
    /\ cluster[2].second = {1}
    /\ cluster[0].first # cluster[2].first
    /\ 0 \in Ancestors(2)

\* C6 as stated: a cluster supplied out of topological order (acyclic, some
\* direct parent above its child) gets an incomplete closure, some
\* Ancestors(i) missing a transitive ancestor of i.
OutOfOrderIncomplete ==
    (After("DepGraphCluster") /\ IsOutOfOrder(cluster) /\ ~ HasParentCycle(cluster)) =>
        \E i \in DOMAIN cluster : ~ (ClosureAt(cluster, i) \subseteq Ancestors(i))

\* C6 as amended: the sweep does not need the topological order; for every
\* cluster supplied out of topological order, cyclic or not, DepGraph(cluster)
\* still yields the complete closure and its inverse.
OutOfOrderComplete ==
    (After("DepGraphCluster") /\ IsOutOfOrder(cluster)) => HoldsClosure

\* The chain 2 -> 1 -> 0 (every parent above its child): 2 is found as an
\* ancestor of 0 although it is only a parent of 1.
OutOfOrderCompleteWitness ==
    /\ After("DepGraphCluster")
    /\ TxCountOf(cluster) = 3
    /\ cluster[0].second = {1}
    /\ cluster[1].second = {2}
    /\ cluster[2].second = {}
    /\ 2 \in Ancestors(0)

\* C7 (acyclicity law of bulk construction): for a topologically ordered
\* cluster IsAcyclic() is true on the constructed graph, and for a cluster
\* whose direct-parent relation has a cycle through two or more transactions
\* IsAcyclic() is false; the constructor accepts both.
BulkAcyclicityLaw ==
    After("DepGraphCluster") =>
        /\ IsTopological(cluster) => IsAcyclic(entries)
        /\ HasParentCycle(cluster) => ~ IsAcyclic(entries)
        /\ DOMAIN entries = DOMAIN cluster

\* A graph built from a cluster with a cycle through three transactions.
BulkAcyclicityLawWitness ==
    /\ After("DepGraphCluster")
    /\ TxCountOf(cluster) = 3
    /\ cluster[0].second = {2}
    /\ cluster[1].second = {0}
    /\ cluster[2].second = {1}
    /\ ~ IsAcyclic(entries)

\* The ancestor relation of e as pairs <<ancestor, transaction>>.
AncestorPairs(e) == {<<a, i>> \in (DOMAIN e) \X (DOMAIN e) : a \in e[i].ancestors}

\* Smallest transitive relation that contains r.
RECURSIVE TransitiveClosure(_)
TransitiveClosure(r) ==
    LET joined == {p \in r \X r : p[1][2] = p[2][1]}
        t == r \cup {<<p[1][1], p[2][2]>> : p \in joined}
    IN  IF t = r THEN r ELSE TransitiveClosure(t)

\* Smallest reflexive-transitive relation on dom that contains r.
SmallestClosed(dom, r) == TransitiveClosure(r \cup {<<x, x>> : x \in dom})

\* C8 (effect of AddDependency): after AddDependency(parent, child) every
\* old descendant d of child has the old Ancestors(d) joined with the old
\* Ancestors(parent), every old ancestor a of parent has the old
\* Descendants(a) joined with the old Descendants(child), and the ancestor
\* relation is the smallest reflexive-transitive relation that contains the
\* old one and the pair (parent, child); also when parent is a descendant
\* of child.
AddDependencyEffect ==
    After("AddDependency") =>
        /\ DOMAIN entries = DOMAIN prev
        /\ \A d \in prev[last.child].descendants :
              entries[d].ancestors = prev[d].ancestors \cup prev[last.parent].ancestors
        /\ \A a \in prev[last.parent].ancestors :
              entries[a].descendants = prev[a].descendants \cup prev[last.child].descendants
        /\ AncestorPairs(entries) =
              SmallestClosed(DOMAIN prev,
                             AncestorPairs(prev) \cup {<<last.parent, last.child>>})

\* AddDependency was called with a parent that was a proper descendant of
\* the child, each of them with further relatives.
AddDependencyEffectWitness ==
    /\ After("AddDependency")
    /\ last.parent # last.child
    /\ last.parent \in prev[last.child].descendants
    /\ ~ (last.child \in prev[last.parent].descendants)
    /\ TxCount = 3
    /\ entries # prev

\* C9 (idempotence): a second AddDependency(p, c) right after a first one
\* leaves every ancestor set, descendant set and feerate as the first call
\* left them.
AddDependencyIdempotent ==
    After("AddDependency") =>
        AddDependency(entries, last.parent, last.child) = entries

\* The first call changed the graph, so the second one meets new sets.
AddDependencyIdempotentWitness ==
    /\ After("AddDependency")
    /\ entries # prev
    /\ Cardinality(Ancestors(last.child)) = 3
    /\ AddDependency(entries, last.parent, last.child) = entries

\* C10 (redundant AddDependency is a no-op): when child is already in
\* Descendants(parent), child = parent included, AddDependency(parent, child)
\* leaves every entry unchanged.
RedundantNoOp ==
    (After("AddDependency") /\ last.child \in prev[last.parent].descendants) =>
        entries = prev

\* A redundant call for an edge that the closure implies through a third
\* transaction.
RedundantNoOpWitness ==
    /\ After("AddDependency")
    /\ last.child # last.parent
    /\ last.child \in prev[last.parent].descendants
    /\ \E m \in DOMAIN prev :
          /\ m # last.child /\ m # last.parent
          /\ m \in prev[last.parent].descendants
          /\ last.child \in prev[m].descendants
    /\ \E i \in DOMAIN prev : prev[i].feerate # ZeroFeeFrac

\* A step that calls AddDependency(parent, child) with child a distinct
\* ancestor of parent.
CycleStep ==
    /\ last'.op = "AddDependency"
    /\ prev' = entries
    /\ last'.child # last'.parent
    /\ last'.child \in entries[last'.parent].ancestors

\* C11 (cycle introduction is silent, detectable and permanent): an
\* AddDependency(parent, child) call with child a distinct ancestor of parent
\* completes on the same transactions, IsAcyclic() is false after it, and
\* once IsAcyclic() is false it is false after every further call.
CyclePermanent ==
    [][/\ CycleStep => (DOMAIN entries' = DOMAIN entries /\ ~ IsAcyclic(entries'))
       /\ (~ IsAcyclic(entries)) => ~ IsAcyclic(entries')]_vars

\* A cycle was closed on an acyclic graph of three transactions by a call
\* whose child was an ancestor of the parent through the third one.
CyclePermanentWitness ==
    /\ After("AddDependency")
    /\ IsAcyclic(prev)
    /\ ~ IsAcyclic(entries)
    /\ last.child # last.parent
    /\ last.child \in prev[last.parent].ancestors
    /\ Cardinality(Ancestors(last.child)) = 3

\* The graph was built from the diamond: 0 parent of 1 and 2, both parents
\* of 3.
IsDiamond ==
    /\ After("DepGraphCluster")
    /\ TxCountOf(cluster) = 4
    /\ cluster[0].second = {}
    /\ cluster[1].second = {0}
    /\ cluster[2].second = {0}
    /\ cluster[3].second = {1, 2}

\* C12 (CanAddDependency rejects redundant and cyclic edges): on every
\* graph CanAddDependency(parent, child) is false when child is in
\* Descendants(parent), parent = child included, and when child is in
\* Ancestors(parent); so CanAddDependency(2, 0) is false on a chain
\* 0 -> 1 -> 2 and CanAddDependency(0, 2) is false on the diamond.
RejectsRedundantAndCyclic ==
    \A parent \in DOMAIN entries, child \in DOMAIN entries :
        (child \in Descendants(parent) \/ child \in Ancestors(parent)) =>
            ~ CanAddDependency(entries, parent, child)

\* On the diamond the redundant edge (0, 3), implied through 1, and the
\* cyclic edge (3, 0) are both rejected.
RejectsRedundantAndCyclicWitness ==
    /\ IsDiamond
    /\ 3 \in Descendants(0)
    /\ ~ CanAddDependency(entries, 0, 3)
    /\ ~ CanAddDependency(entries, 0, 2)
    /\ ~ CanAddDependency(entries, 3, 0)

\* d is a child of i that is not a descendant of another proper descendant
\* of i.
IsDirectChild(e, i, d) ==
    /\ d \in e[i].descendants \ {i}
    /\ \A m \in e[i].descendants \ {i, d} : ~ (d \in e[m].descendants)

\* p is a parent of i that is not an ancestor of another proper ancestor of i.
IsDirectParent(e, i, p) ==
    /\ p \in e[i].ancestors \ {i}
    /\ \A m \in e[i].ancestors \ {i, p} : ~ (p \in e[m].ancestors)

\* C13 as stated: on every acyclic graph CanAddDependency(parent, child) is
\* true exactly when child is neither a descendant nor an ancestor of parent.
TwoChecksDecide ==
    IsAcyclic(entries) =>
        \A parent \in DOMAIN entries, child \in DOMAIN entries :
            CanAddDependency(entries, parent, child) <=>
                (~ (child \in Descendants(parent)) /\ ~ (child \in Ancestors(parent)))

\* C13 as amended: on every acyclic graph CanAddDependency(parent, child) is
\* true exactly when child is neither a descendant nor an ancestor of parent
\* and no ancestor of parent (parent included) has a direct child among the
\* descendants of child (child included); the third scan does change the
\* answer.
ThreeChecksDecide ==
    IsAcyclic(entries) =>
        \A parent \in DOMAIN entries, child \in DOMAIN entries :
            CanAddDependency(entries, parent, child) <=>
                /\ ~ (child \in Descendants(parent))
                /\ ~ (child \in Ancestors(parent))
                /\ ~ \E i \in Ancestors(parent), d \in Descendants(child) :
                        IsDirectChild(entries, i, d)

\* Transactions 0 and 1 are unrelated parents of 2: the edge (0, 1) is
\* neither redundant nor cyclic and is refused by the third scan, while the
\* edge (2, 3) to an unrelated transaction is allowed.
ThreeChecksDecideWitness ==
    /\ After("DepGraphCluster")
    /\ TxCount = 4
    /\ IsAcyclic(entries)
    /\ Descendants(0) = {0, 2}
    /\ Descendants(1) = {1, 2}
    /\ Descendants(3) = {3}
    /\ ~ CanAddDependency(entries, 0, 1)
    /\ CanAddDependency(entries, 2, 3)

\* What the parents in q regenerate for i: i, q and the ancestors of q.
Regenerated(e, i, q) == {i} \cup q \cup UNION {e[a].ancestors : a \in q}

\* C14 (reduced-set reconstruction law): on every graph and for every i,
\* with P = GetReducedParents(i), the set {i} with P and the ancestors of
\* the members of P is exactly Ancestors(i), and P is a subset of
\* Ancestors(i) without i.
Reconstruction ==
    \A i \in DOMAIN entries :
        LET P == GetReducedParents(entries, i)
        IN  /\ Regenerated(entries, i, P) = Ancestors(i)
            /\ P \subseteq (Ancestors(i) \ {i})

\* A transaction with three proper ancestors of which the loop keeps one
\* and skips the removed ones.
ReconstructionWitness ==
    /\ After("DepGraphCluster")
    /\ \E i \in DOMAIN entries :
          /\ Cardinality(Ancestors(i)) = 4
          /\ Cardinality(GetReducedParents(entries, i)) = 1
          /\ First(Ancestors(i) \ {i}) \notin GetReducedParents(entries, i)

\* C15 (reduced parents are minimal): on every acyclic graph
\* GetReducedParents(i) is the set of proper ancestors of i that are not
\* ancestors of another proper ancestor of i; no member is an ancestor of
\* another member and no proper subset regenerates Ancestors(i).  On the
\* diamond GetReducedParents(3) = {1, 2}.
ReducedParentsMinimal ==
    IsAcyclic(entries) =>
        \A i \in DOMAIN entries :
            LET P == GetReducedParents(entries, i)
            IN  /\ P = {a \in DOMAIN entries : IsDirectParent(entries, i, a)}
                /\ \A a \in P, b \in P : a # b => ~ (a \in Ancestors(b))
                /\ \A q \in SUBSET P :
                      q # P => Regenerated(entries, i, q) # Ancestors(i)
                /\ IsDiamond => GetReducedParents(entries, 3) = {1, 2}

\* The diamond, where 0 is dropped from the parents of 3.
ReducedParentsMinimalWitness ==
    /\ IsDiamond
    /\ Ancestors(3) = {0, 1, 2, 3}
    /\ GetReducedParents(entries, 3) = {1, 2}

\* C16 (GetReducedChildren mirrors GetReducedParents): on every acyclic
\* graph j is in GetReducedChildren(i) exactly when i is in
\* GetReducedParents(j).
ReducedMirror ==
    IsAcyclic(entries) =>
        \A i \in DOMAIN entries, j \in DOMAIN entries :
            (j \in GetReducedChildren(entries, i)) <=> (i \in GetReducedParents(entries, j))

\* The diamond read from the top: the children of 0 are 1 and 2, not 3.
ReducedMirrorWitness ==
    /\ IsDiamond
    /\ Descendants(0) = {0, 1, 2, 3}
    /\ GetReducedChildren(entries, 0) = {1, 2}
    /\ 0 \in GetReducedParents(entries, 1)
    /\ ~ (0 \in GetReducedParents(entries, 3))

\* Sum of component k of the feerates of the transactions in s.
RECURSIVE ComponentSum(_, _, _)
ComponentSum(e, s, k) ==
    IF s = {} THEN 0
    ELSE LET x == CHOOSE y \in s : \A z \in s : z <= y
         IN  e[x].feerate[k] + ComponentSum(e, s \ {x}, k)

\* C17 (feerate aggregation): FeeRate(set) is the component-wise sum of fee
\* and size over the members; it is the zero feerate for the empty set,
\* FeeRate(i) for a singleton {i}, and additive over disjoint sets.
FeeRateAggregation ==
    /\ FeeRate(entries, {}) = ZeroFeeFrac
    /\ \A i \in DOMAIN entries : FeeRate(entries, {i}) = entries[i].feerate
    /\ \A A \in SUBSET (DOMAIN entries) :
          /\ FeeRate(entries, A) = <<ComponentSum(entries, A, 1), ComponentSum(entries, A, 2)>>
          /\ \A B \in SUBSET (DOMAIN entries) :
                (A \cap B = {}) =>
                    FeeRate(entries, A \cup B) =
                        FeeFracAdd(FeeRate(entries, A), FeeRate(entries, B))

\* Three transactions with the feerates (0,0), (1,1) and (2,1): the whole
\* set sums to (3,2).
FeeRateAggregationWitness ==
    /\ TxCount = 3
    /\ {entries[i].feerate : i \in DOMAIN entries} = {<<0, 0>>, <<1, 1>>, <<2, 1>>}
    /\ FeeRate(entries, DOMAIN entries) = <<3, 2>>

\* C18 (AddTransaction appends exactly one entry): the call returns the
\* TxCount() from before it, TxCount() grows by one, the new entry has the
\* given feerate and ancestors = descendants = {returned index}, and every
\* entry that existed is unchanged.
AppendsOne ==
    After("AddTransaction") =>
        /\ last.ret = TxCountOf(prev)
        /\ TxCount = TxCountOf(prev) + 1
        /\ DOMAIN entries = DOMAIN prev \cup {last.ret}
        /\ entries[last.ret] =
              [feerate |-> last.feefrac, ancestors |-> {last.ret}, descendants |-> {last.ret}]
        /\ \A i \in DOMAIN prev : entries[i] = prev[i]

\* The third transaction was appended, with index 2, to a graph that has
\* an edge.
AppendsOneWitness ==
    /\ After("AddTransaction")
    /\ last.ret = 2
    /\ last.feefrac = <<2, 1>>
    /\ prev[1].ancestors = {0, 1}
    /\ entries[0].feerate = <<1, 1>>

\* The graph after n calls AddTransaction(feefrac) on e.
RECURSIVE AddTransactions(_, _, _)
AddTransactions(e, n, feefrac) ==
    IF n = 0 THEN e ELSE AddTransactions(AddTransaction(e, feefrac), n - 1, feefrac)

\* C19 (DepGraph(ntx)): the graph has TxCount() = ntx, every entry has
\* Ancestors(i) = Descendants(i) = {i} and the zero feerate, it is acyclic,
\* and it equals the graph that ntx calls AddTransaction with the zero
\* feerate build from an empty DepGraph.
NtxGraph ==
    After("DepGraphNtx") =>
        /\ TxCount = last.ntx
        /\ DOMAIN entries = 0..(last.ntx - 1)
        /\ \A i \in DOMAIN entries :
              /\ Ancestors(i) = {i}
              /\ Descendants(i) = {i}
              /\ entries[i].feerate = ZeroFeeFrac
        /\ IsAcyclic(entries)
        /\ entries = AddTransactions(EmptyGraph, last.ntx, ZeroFeeFrac)

\* DepGraph(ntx) was called for the largest ntx.
NtxGraphWitness ==
    /\ After("DepGraphNtx")
    /\ last.ntx = MaxTx
    /\ TxCount = MaxTx

\* C20 (append-only, monotone state): in every step TxCount() does not
\* decrease, every existing index stays, keeps its feerate, and its
\* ancestor and descendant sets only gain members.
MonotoneStep ==
    /\ TxCountOf(entries') >= TxCountOf(entries)
    /\ \A i \in DOMAIN entries :
          /\ i \in DOMAIN entries'
          /\ entries'[i].feerate = entries[i].feerate
          /\ entries[i].ancestors \subseteq entries'[i].ancestors
          /\ entries[i].descendants \subseteq entries'[i].descendants

Monotone == [][MonotoneStep]_vars

\* AddDependency has just enlarged sets of a graph of three transactions
\* that carry feerates.
MonotoneWitness ==
    /\ After("AddDependency")
    /\ TxCount = 3
    /\ \E i \in DOMAIN prev :
          /\ prev[i].ancestors # {i}
          /\ prev[i].ancestors # entries[i].ancestors
          /\ prev[i].feerate # ZeroFeeFrac

\* The const member functions.
Queries ==
    {"TxCount", "FeeRate", "FeeRateSet", "Ancestors", "Descendants",
     "GetReducedParents", "GetReducedChildren", "IsAcyclic", "CanAddDependency"}

\* What the query recorded in call returns on the graph e.
QueryResult(e, call) ==
    CASE call.op = "TxCount" -> TxCountOf(e)
      [] call.op = "FeeRate" -> e[call.parent].feerate
      [] call.op = "FeeRateSet" -> FeeRate(e, call.elems)
      [] call.op = "Ancestors" -> e[call.parent].ancestors
      [] call.op = "Descendants" -> e[call.parent].descendants
      [] call.op = "GetReducedParents" -> GetReducedParents(e, call.parent)
      [] call.op = "GetReducedChildren" -> GetReducedChildren(e, call.parent)
      [] call.op = "IsAcyclic" -> IsAcyclic(e)
      [] call.op = "CanAddDependency" -> CanAddDependency(e, call.parent, call.child)

MakesEdgeRedundant(e, parent, child) ==
    LET after == AddDependency(e, parent, child)
    IN  \E i \in DOMAIN e : \E d \in GetReducedChildren(e, i) :
            ~ (d \in GetReducedChildren(after, i))

\* C22 (meaning of the third check): on every acyclic graph, for a pair
\* where child is neither a descendant nor an ancestor of parent,
\* CanAddDependency(parent, child) is false exactly when AddDependency(parent,
\* child) would take some d out of some GetReducedChildren(i); and when it
\* is true, after AddDependency(parent, child) GetReducedChildren(parent) is
\* its old value plus child and GetReducedChildren(i) is unchanged for every
\* other i.
ThirdCheckMeaning ==
    IsAcyclic(entries) =>
        \A parent \in DOMAIN entries, child \in DOMAIN entries :
            (~ (child \in Descendants(parent)) /\ ~ (child \in Ancestors(parent))) =>
                LET after == AddDependency(entries, parent, child)
                IN  /\ (~ CanAddDependency(entries, parent, child)) <=>
                            MakesEdgeRedundant(entries, parent, child)
                    /\ CanAddDependency(entries, parent, child) =>
                            /\ GetReducedChildren(after, parent) =
                                    GetReducedChildren(entries, parent) \cup {child}
                            /\ \A i \in DOMAIN entries \ {parent} :
                                    GetReducedChildren(after, i) =
                                        GetReducedChildren(entries, i)

\* Transaction 0 is a parent of 1 and of 2, and 3 is unrelated: the edge
\* (1, 2) would make the minimal edge (0, 2) redundant and is refused for
\* the sake of the ancestor 0 of 1, while the edge (2, 3) is allowed.
ThirdCheckMeaningWitness ==
    /\ After("DepGraphCluster")
    /\ TxCount = 4
    /\ IsAcyclic(entries)
    /\ GetReducedChildren(entries, 0) = {1, 2}
    /\ Descendants(1) = {1}
    /\ Descendants(2) = {2}
    /\ Ancestors(3) = {3}
    /\ ~ CanAddDependency(entries, 1, 2)
    /\ MakesEdgeRedundant(entries, 1, 2)
    /\ CanAddDependency(entries, 2, 3)
    /\ ~ MakesEdgeRedundant(entries, 2, 3)

\* The pair (parent, child) passes the two early checks of CanAddDependency.
PassesEarlyChecks(e, parent, child) ==
    /\ ~ (child \in e[parent].descendants)
    /\ ~ (child \in e[parent].ancestors)

\* C23 as stated: for every pair (parent, child) that passed the first two
\* checks and every i in Ancestors(parent), the guard of the scan and the
\* inner test have the same truth value.
ScanTestsAgree ==
    \A parent \in DOMAIN entries, child \in DOMAIN entries :
        PassesEarlyChecks(entries, parent, child) =>
            \A i \in Ancestors(parent) :
                ScanGuard(entries, i, child) <=> ScanTest(entries, i, child)

\* C23 as amended: the two tests are different conditions; for every pair
\* that passed the first two checks and every i in Ancestors(parent) the
\* inner test implies the guard, and the guard does not imply the inner
\* test.
ScanTestImpliesGuard ==
    \A parent \in DOMAIN entries, child \in DOMAIN entries :
        PassesEarlyChecks(entries, parent, child) =>
            \A i \in Ancestors(parent) :
                ScanTest(entries, i, child) => ScanGuard(entries, i, child)

\* The chain 0 -> 1 -> 3 with a second parent 2 of 3: for the pair (0, 2)
\* the guard holds at i = 0 through the common descendant 3 and the inner
\* test fails, the reduced child of 0 being 1; for the pair (1, 2) both hold.
ScanTestImpliesGuardWitness ==
    /\ After("DepGraphCluster")
    /\ TxCount = 4
    /\ Ancestors(3) = {0, 1, 2, 3}
    /\ Ancestors(1) = {0, 1}
    /\ Ancestors(2) = {2}
    /\ PassesEarlyChecks(entries, 0, 2)
    /\ ScanGuard(entries, 0, 2)
    /\ ~ ScanTest(entries, 0, 2)
    /\ PassesEarlyChecks(entries, 1, 2)
    /\ ScanGuard(entries, 1, 2)
    /\ ScanTest(entries, 1, 2)

\* The variant of CanAddDependency without the guard of the scan.
CanAddDependencyNoGuard(e, parent, child) ==
    IF child \in e[parent].descendants THEN FALSE
    ELSE IF child \in e[parent].ancestors THEN FALSE
    ELSE \A i \in e[parent].ancestors : ~ ScanTest(e, i, child)

\* C24 (the guard of the scan is redundant): on every graph, for all i and
\* child, the inner test implies the guard, and CanAddDependency without the
\* guard returns what CanAddDependency returns for every pair.
GuardRedundant ==
    /\ \A i \in DOMAIN entries, child \in DOMAIN entries :
          ScanTest(entries, i, child) => ScanGuard(entries, i, child)
    /\ \A parent \in DOMAIN entries, child \in DOMAIN entries :
          CanAddDependencyNoGuard(entries, parent, child) =
              CanAddDependency(entries, parent, child)

\* The chain 3 -> 2 -> 0 with a second parent 1 of 0: the scan refuses
\* (2, 1), where the guard and the inner test hold at i = 2, and allows
\* (3, 1), where the guard holds and the inner test fails; the variant
\* without the guard answers the same.
GuardRedundantWitness ==
    /\ After("DepGraphCluster")
    /\ TxCount = 4
    /\ Descendants(3) = {0, 2, 3}
    /\ Descendants(2) = {0, 2}
    /\ Descendants(1) = {0, 1}
    /\ ScanGuard(entries, 2, 1) /\ ScanTest(entries, 2, 1)
    /\ ~ CanAddDependency(entries, 2, 1)
    /\ ~ CanAddDependencyNoGuard(entries, 2, 1)
    /\ ScanGuard(entries, 3, 1) /\ ~ ScanTest(entries, 3, 1)
    /\ CanAddDependency(entries, 3, 1)
    /\ CanAddDependencyNoGuard(entries, 3, 1)

\* The transactions reached from the set s by following direct-parent links
\* of cl that lead into allowed.
RECURSIVE ReachedWithin(_, _, _)
ReachedWithin(cl, s, allowed) ==
    LET t == s \cup UNION {cl[x].second \cap allowed : x \in s}
    IN  IF t = s THEN s ELSE ReachedWithin(cl, t, allowed)

\* There is a path of direct-parent links from a to b through the subgraph
\* consisting of {a, b} and {0, ..., i-1}.
PathThrough(cl, a, b, i) ==
    b \in ReachedWithin(cl, {a}, {a, b} \cup 0..(i - 1))

\* The constructor is at the start of an iteration of its outer propagation
\* loop.
AtIteration == last.op = "Propagate" /\ last.i < TxCount

\* C25 (loop invariant of the propagation sweep, as the comment at the head
\* of the loop states it): at the start of outer iteration i, for all a and
\* b, entries[a].ancestors[b] is true exactly when a # b and there is a path
\* from a to b through {a, b} and {0, ..., i-1}, or a = b and b <= i.
SweepInvariant ==
    AtIteration =>
        \A a \in DOMAIN entries, b \in DOMAIN entries :
            (b \in Ancestors(a)) <=>
                \/ a # b /\ PathThrough(cluster, a, b, last.i)
                \/ a = b /\ b <= last.i

\* What the sweep does keep: the first clause for a # b, and every
\* transaction its own ancestor from the first loop on.
SweepInvariantSelfSet ==
    AtIteration =>
        \A a \in DOMAIN entries, b \in DOMAIN entries :
            (b \in Ancestors(a)) <=>
                \/ a # b /\ PathThrough(cluster, a, b, last.i)
                \/ a = b

\* The stepped constructor ends with the graph DepGraph(cluster).
SweepResult == After("DepGraphCluster") => entries = DepGraphCluster(cluster)

\* The cluster whose i-th element is (FeeRate(i), GetReducedParents(i)).
ReducedCluster(e) ==
    [i \in DOMAIN e |-> [first |-> e[i].feerate, second |-> GetReducedParents(e, i)]]

\* C26 (round trip through the minimal edge list): for every acyclic graph
\* G, whatever the index order of parents and children, DepGraph applied to
\* the cluster of the feerates and reduced parents of G is equal to G.
RoundTrip ==
    IsAcyclic(entries) => DepGraphCluster(ReducedCluster(entries)) = entries

\* A graph built from links out of index order, one of them implied by the
\* others: the reduced cluster drops that link and still reproduces the
\* graph.
RoundTripWitness ==
    /\ After("DepGraphCluster")
    /\ TxCount = 4
    /\ IsAcyclic(entries)
    /\ IsOutOfOrder(cluster)
    /\ cluster[0].second = {1, 3}
    /\ Ancestors(0) = {0, 1, 2, 3}
    /\ Ancestors(1) = {1, 2, 3}
    /\ ReducedCluster(entries)[0].second = {1}
    /\ DepGraphCluster(ReducedCluster(entries)) = entries

\* The direct-parent links <<parent, child>> of the cluster cl.
ClusterLinks(cl) == {p \in (DOMAIN cl) \X (DOMAIN cl) : p[1] \in cl[p[2]].second}

\* The incremental construction of the cluster has made all its calls.
ReplayDone ==
    /\ TxCount = TxCountOf(cluster)
    /\ last.elems = ClusterLinks(cluster)

\* C27 (incremental and bulk construction agree): for every topologically
\* ordered cluster, AddTransaction(cluster[i].first) for each i in order
\* followed by AddDependency(p, i) for every direct parent p of every i, in
\* any order of those calls, builds a graph equal (operator==) to
\* DepGraph(cluster).
IncrementalEqualsBulk ==
    (IsTopological(cluster) /\ ReplayDone) => entries = DepGraphCluster(cluster)

\* The chain 0 -> 1 -> 2 -> 3 built backwards: the link (0, 1) was added
\* last, after (1, 2) and (2, 3), and reached the descendants of 1.
IncrementalEqualsBulkWitness ==
    /\ ReplayDone
    /\ TxCount = 4
    /\ ClusterLinks(cluster) = {<<0, 1>>, <<1, 2>>, <<2, 3>>}
    /\ After("AddDependency")
    /\ last.parent = 0
    /\ last.child = 1
    /\ prev[3].ancestors = {1, 2, 3}
    /\ Ancestors(3) = {0, 1, 2, 3}
    /\ entries[3].feerate = cluster[3].first

\* C28 (AddDependency calls commute): for every graph and any two pairs
\* (p1, c1), (p2, c2), AddDependency(p1, c1) followed by AddDependency(p2, c2)
\* gives the same entries as the two calls in the opposite order, also when
\* one or both calls create a cycle.
AddDependencyCommutes ==
    After("AddDependency") =>
        \A p2 \in DOMAIN prev, c2 \in DOMAIN prev :
            AddDependency(entries, p2, c2) =
                AddDependency(AddDependency(prev, p2, c2), last.parent, last.child)

\* The call (p1, c1) closed a cycle on a graph of three transactions, and
\* there is a second pair (p2, c2) that changes the graph before and after
\* it and closes a cycle of its own when it comes first.
AddDependencyCommutesWitness ==
    /\ After("AddDependency")
    /\ TxCount = 3
    /\ IsAcyclic(prev)
    /\ ~ IsAcyclic(entries)
    /\ \E p2 \in DOMAIN prev, c2 \in DOMAIN prev :
          /\ <<p2, c2>> # <<last.parent, last.child>>
          /\ AddDependency(entries, p2, c2) # entries
          /\ ~ IsAcyclic(AddDependency(prev, p2, c2))
          /\ AddDependency(AddDependency(prev, p2, c2), last.parent, last.child) #
                 AddDependency(prev, p2, c2)

\* C29 (frame of AddDependency): AddDependency(parent, child) leaves TxCount()
\* and every feerate unchanged, leaves Descendants(x) unchanged for every x
\* outside the old Ancestors(parent) and Ancestors(x) unchanged for every x
\* outside the old Descendants(child); entries outside both sets are
\* untouched.
AddDependencyFrame ==
    After("AddDependency") =>
        /\ TxCount = TxCountOf(prev)
        /\ DOMAIN entries = DOMAIN prev
        /\ \A x \in DOMAIN prev :
              /\ entries[x].feerate = prev[x].feerate
              /\ x \notin prev[last.parent].ancestors =>
                    entries[x].descendants = prev[x].descendants
              /\ x \notin prev[last.child].descendants =>
                    entries[x].ancestors = prev[x].ancestors
              /\ (x \notin prev[last.parent].ancestors /\ x \notin prev[last.child].descendants) =>
                    entries[x] = prev[x]

\* The call changed the parent and the child and left a third transaction,
\* a descendant of the parent with a feerate, as it was.
AddDependencyFrameWitness ==
    /\ After("AddDependency")
    /\ TxCount = 3
    /\ entries[last.parent] # prev[last.parent]
    /\ entries[last.child] # prev[last.child]
    /\ \E x \in DOMAIN prev :
          /\ x \notin prev[last.parent].ancestors
          /\ x \notin prev[last.child].descendants
          /\ x \in prev[last.parent].descendants
          /\ prev[x].feerate = <<1, 1>>
          /\ entries[x] = prev[x]

\* CanAddDependency is false for every pair.
Saturated ==
    \A parent \in DOMAIN entries, child \in DOMAIN entries :
        ~ CanAddDependency(entries, parent, child)

\* What holds after every permitted AddDependency(parent, child): some
\* ancestor set is strictly larger, both CanAddDependency(parent, child) and
\* CanAddDependency(child, parent) are false, and the process has made at
\* most N(N-1)/2 additions on its N transactions.
FillStepLaw ==
    After("AddDependency") =>
        /\ DOMAIN entries = DOMAIN prev
        /\ \E x \in DOMAIN prev :
              /\ prev[x].ancestors \subseteq entries[x].ancestors
              /\ prev[x].ancestors # entries[x].ancestors
        /\ ~ CanAddDependency(entries, last.parent, last.child)
        /\ ~ CanAddDependency(entries, last.child, last.parent)
        /\ 2 * last.count <= TxCount * (TxCount - 1)

\* C30 (guarded dependency insertion terminates): on a graph of N
\* transactions every AddDependency(parent, child) made when
\* CanAddDependency(parent, child) is true strictly enlarges an ancestor
\* set and leaves CanAddDependency(parent, child) and CanAddDependency(child,
\* parent) false; a process that keeps adding permitted dependencies makes
\* at most N(N-1)/2 additions and eventually reaches a graph on which
\* CanAddDependency is false for every pair.
GuardedInsertionTerminates == [] FillStepLaw /\ <> Saturated

\* A process has filled a graph of three transactions without dependencies
\* with two additions, 0 and 1 parents of 2, and no further dependency is
\* permitted.
GuardedInsertionTerminatesWitness ==
    /\ After("AddDependency")
    /\ TxCount = 3
    /\ ClusterLinks(cluster) = {}
    /\ last.count = 2
    /\ IsAcyclic(entries)
    /\ Ancestors(2) = {0, 1, 2}
    /\ Ancestors(1) = {1}
    /\ Saturated

====
